---- MODULE Spec2Model ----
(***************************************************************************)
(* Template acquisition and caching layer of TerraFE (CacheManager).       *)
(*                                                                         *)
(* Strings are sequences of tokens.  A token is either one of the          *)
(* delimiter characters "/", "#", ":" or an atom: a non-empty run of       *)
(* characters holding no delimiter ("user", "github.com", ".zip").         *)
(* Adjacent atoms concatenate ("main" followed by ".zip" is "main.zip").   *)
(* Every string operation of the source (includes, startsWith, split,      *)
(* join, the regular expressions, URL parsing) is computed on tokens the   *)
(* way the source computes it on characters.                               *)
(***************************************************************************)
EXTENDS Integers, Sequences, FiniteSets, TLC

(***************************************************************************)
(* Bounds of the model.                                                    *)
(***************************************************************************)
\* Date.now() ranges over 0..MaxTime.
MaxTime == 3
\* templates.cacheTime, scaled down from 86400000 ms.
CacheTime == 1
\* Longest subdirectory (in path segments) of the enumerated URL references.
MaxSubdirSegs == 3

(***************************************************************************)
(* String helpers (JavaScript String and Array methods on token strings).  *)
(***************************************************************************)
Slash == "/"
Hash == "#"
Colon == ":"
Delimiters == {Slash, Hash, Colon}

IsAtom(t) == t \notin Delimiters

\* JS s.indexOf(t) + 1 for a one-token needle; 0 when absent.
IndexOf(s, t) ==
  IF \E i \in 1..Len(s) : s[i] = t
  THEN CHOOSE i \in 1..Len(s) : s[i] = t /\ \A j \in 1..(i - 1) : s[j] # t
  ELSE 0

\* JS s.includes(t) for a one-token needle.
Includes(s, t) == IndexOf(s, t) # 0

\* JS s.startsWith(p).
StartsWith(s, p) == Len(s) >= Len(p) /\ SubSeq(s, 1, Len(p)) = p

\* JS s.slice(i) with a 0-based index on a sequence.
SliceFrom(s, i) == SubSeq(s, i + 1, Len(s))

\* JS s.split(d): n occurrences of d give n + 1 parts, empty parts kept.
RECURSIVE Split(_, _)
Split(s, d) ==
  LET i == IndexOf(s, d)
  IN IF i = 0 THEN <<s>>
     ELSE <<SubSeq(s, 1, i - 1)>> \o Split(SubSeq(s, i + 1, Len(s)), d)

\* JS parts.join(d).
RECURSIVE Join(_, _)
Join(parts, d) ==
  IF parts = <<>> THEN <<>>
  ELSE IF Len(parts) = 1 THEN parts[1]
  ELSE parts[1] \o <<d>> \o Join(Tail(parts), d)

\* JS parts.filter((part) => part): drops the empty strings.
NonEmpty(p) == p # <<>>
FilterParts(parts) == SelectSeq(parts, NonEmpty)

\* The literal 'direct:'.
DirectPrefix == <<"direct", Colon>>
\* The literal 'https://github.com/'.
GithubPrefix == <<"https", Colon, Slash, Slash, "github.com", Slash>>
\* The literal 'main'.
MainBranch == <<"main">>

(***************************************************************************)
(* new URL(repoUrl).pathname (WHATWG URL parsing without a base).          *)
(* The result is [ok |-> FALSE] when the constructor throws.               *)
(***************************************************************************)
SpecialSchemes == {"https", "http"}

\* The part of s before the first "#" (the fragment is not in pathname).
BeforeFragment(s) ==
  LET h == IndexOf(s, Hash) IN IF h = 0 THEN s ELSE SubSeq(s, 1, h - 1)

\* s without its leading "/" tokens.
RECURSIVE DropSlashes(_)
DropSlashes(s) ==
  IF s # <<>> /\ Head(s) = Slash THEN DropSlashes(Tail(s)) ELSE s

\* host and path of "host/path...": the host ends at the first "/".
AuthorityPath(s) ==
  LET i == IndexOf(s, Slash)
  IN IF i = 0 THEN [host |-> s, path |-> <<Slash>>]
     ELSE [host |-> SubSeq(s, 1, i - 1), path |-> SubSeq(s, i, Len(s))]

URLPathname(s) ==
  IF ~(Len(s) >= 2 /\ IsAtom(s[1]) /\ s[2] = Colon)
  THEN [ok |-> FALSE, pathname |-> <<>>]
  ELSE
    LET body == BeforeFragment(SubSeq(s, 3, Len(s)))
    IN IF s[1] \in SpecialSchemes
       THEN \* special scheme: any number of slashes, then a non-empty host
            \* (a ":" in it would start a port, which must be digits)
            LET ap == AuthorityPath(DropSlashes(body))
            IN IF ap.host = <<>> \/ Includes(ap.host, Colon)
               THEN [ok |-> FALSE, pathname |-> <<>>]
               ELSE [ok |-> TRUE, pathname |-> ap.path]
       ELSE IF StartsWith(body, <<Slash, Slash>>)
       THEN \* scheme://authority/path
            LET ap == AuthorityPath(SubSeq(body, 3, Len(body)))
            IN [ok |-> TRUE,
                pathname |-> IF IndexOf(SubSeq(body, 3, Len(body)), Slash) = 0
                             THEN <<>> ELSE ap.path]
       ELSE \* a path, or an opaque path: kept as written
            [ok |-> TRUE, pathname |-> body]

(***************************************************************************)
(* The archive locator `direct:https://github.com/<repo>/archive/<b>.zip`. *)
(***************************************************************************)
ZipUrl(ownerRepo, branch) ==
  GithubPrefix \o ownerRepo \o <<Slash, "archive", Slash>> \o branch \o <<".zip">>

DirectZip(ownerRepo, branch) == DirectPrefix \o ZipUrl(ownerRepo, branch)

DirectZipSub(ownerRepo, branch, subdirectory) ==
  DirectZip(ownerRepo, branch) \o <<Hash>> \o subdirectory

(***************************************************************************)
(* The regular expressions of parseGitUrl.                                 *)
(***************************************************************************)
SlashPositions(s) == {i \in 1..Len(s) : s[i] = Slash}

\* /^[^\/]+\/[^\/]+$/ : exactly one "/", with something on both sides.
MatchOwnerRepo(s) ==
  /\ Cardinality(SlashPositions(s)) = 1
  /\ \A i \in SlashPositions(s) : 1 < i /\ i < Len(s)

\* The positions h of a "#" that can end the group ([^\/]+\/[^\/]+): the
\* text before h holds exactly one "/", with something on both sides of it.
RepoHashPositions(s) ==
  {h \in 1..Len(s) :
     /\ s[h] = Hash
     /\ MatchOwnerRepo(SubSeq(s, 1, h - 1))}

Max(S) == CHOOSE x \in S : \A y \in S : y <= x

\* /^([^\/]+\/[^\/]+)#([^:]+)$/ : the first group is greedy, so it ends at
\* the last "#" for which the rest still matches.
BranchHashPositions(s) ==
  {h \in RepoHashPositions(s) :
     /\ h < Len(s)
     /\ ~Includes(SubSeq(s, h + 1, Len(s)), Colon)}

MatchBranch(s) ==
  IF BranchHashPositions(s) = {}
  THEN [ok |-> FALSE, repo |-> <<>>, branch |-> <<>>]
  ELSE LET h == Max(BranchHashPositions(s))
       IN [ok |-> TRUE, repo |-> SubSeq(s, 1, h - 1),
           branch |-> SubSeq(s, h + 1, Len(s))]

\* /^([^\/]+\/[^\/]+)#([^:]+):(.+)$/ : [^:]+ runs to the first ":" after
\* the "#", and both it and the rest are non-empty.
ColonAfter(s, h) == h + IndexOf(SubSeq(s, h + 1, Len(s)), Colon)

SubdirHashPositions(s) ==
  {h \in RepoHashPositions(s) :
     /\ Includes(SubSeq(s, h + 1, Len(s)), Colon)
     /\ ColonAfter(s, h) > h + 1
     /\ ColonAfter(s, h) < Len(s)}

MatchSubdir(s) ==
  IF SubdirHashPositions(s) = {}
  THEN [ok |-> FALSE, repo |-> <<>>, branch |-> <<>>, subdirectory |-> <<>>]
  ELSE LET h == Max(SubdirHashPositions(s))
           c == ColonAfter(s, h)
       IN [ok |-> TRUE, repo |-> SubSeq(s, 1, h - 1),
           branch |-> SubSeq(s, h + 1, c - 1),
           subdirectory |-> SubSeq(s, c + 1, Len(s))]

(***************************************************************************)
(* CacheManager.parseGitUrl: the Reference Resolver.                       *)
(***************************************************************************)
\* The subdirectory taken from the branch segment on: slice(3).
SubdirectoryOf_fromBranch(pathParts) == Join(SliceFrom(pathParts, 3), Slash)

\* pathParts.slice(4).join('/')
SubdirectoryOf(pathParts) == Join(SliceFrom(pathParts, 4), Slash)

\* pathParts[3] || 'main'
BranchOf(pathParts) == IF Len(pathParts) >= 4 THEN pathParts[4] ELSE MainBranch

\* The body of `if (pathParts.length >= 2)`.
GithubLocator(pathParts) ==
  LET ownerRepo == pathParts[1] \o <<Slash>> \o pathParts[2]
  IN IF Len(pathParts) > 2 /\ pathParts[3] = <<"tree">>
     THEN IF SubdirectoryOf(pathParts) # <<>>
          THEN DirectZipSub(ownerRepo, BranchOf(pathParts), SubdirectoryOf(pathParts))
          ELSE DirectZip(ownerRepo, BranchOf(pathParts))
     ELSE DirectZip(ownerRepo, MainBranch)

\* The shorthand rules and the fall-through, tried in the source's order.
ShorthandLocator(repoUrl) ==
  IF MatchOwnerRepo(repoUrl) THEN DirectZip(repoUrl, MainBranch)
  ELSE IF MatchBranch(repoUrl).ok
  THEN DirectZip(MatchBranch(repoUrl).repo, MatchBranch(repoUrl).branch)
  ELSE IF MatchSubdir(repoUrl).ok
  THEN DirectZipSub(MatchSubdir(repoUrl).repo, MatchSubdir(repoUrl).branch,
                    MatchSubdir(repoUrl).subdirectory)
  ELSE IF StartsWith(repoUrl, DirectPrefix) THEN repoUrl
  ELSE repoUrl

parseGitUrl(repoUrl) ==
  LET url == URLPathname(repoUrl)
      pathParts == FilterParts(Split(url.pathname, Slash))
  IN IF Includes(repoUrl, "github.com") /\ url.ok /\ Len(pathParts) >= 2
     THEN GithubLocator(pathParts)
     ELSE ShorthandLocator(repoUrl)

(***************************************************************************)
(* JavaScript values and objects.                                          *)
(* A value is a pair <<type, payload>>.  An object has the four property   *)
(* names the metadata can carry; a property it does not have is Missing.   *)
(***************************************************************************)
Missing == <<"missing", 0>>
Undefined == <<"undefined", 0>>
Null == <<"null", 0>>
NaN == <<"NaN", 0>>
Num(n) == <<"number", n>>
Str(k) == <<"string", k>>

PropertyNames == {"repoUrl", "cachedAt", "cacheKey", "template"}
EmptyObject == [p \in PropertyNames |-> Missing]

\* obj.name : a property the object does not have reads as undefined.
Get(obj, name) == IF obj[name] = Missing THEN Undefined ELSE obj[name]

\* { ...base, ...over } : a property of `over` replaces that of `base`.
Spread(base, over) ==
  [p \in PropertyNames |-> IF over[p] # Missing THEN over[p] ELSE base[p]]

\* JSON.parse(JSON.stringify(obj)) : properties whose value is undefined are
\* not written.
JsonRoundTrip(obj) ==
  [p \in PropertyNames |-> IF obj[p] = Undefined THEN Missing ELSE obj[p]]

\* n - v for a number n: NaN unless v is a number.
Minus(n, v) == IF v[1] = "number" THEN Num(n - v[2]) ELSE NaN

\* v > n for a number n: false when v is NaN.
GreaterThan(v, n) == v[1] = "number" /\ v[2] > n

(***************************************************************************)
(* References and cache keys.                                              *)
(* generateCacheKey is the MD5 of the raw reference; over the references   *)
(* of the model it is their index in Refs (no two of them collide).        *)
(***************************************************************************)
RefPlain == <<"user", Slash, "repo">>
RefSubdir ==
  GithubPrefix \o <<"vitejs", Slash, "vite", Slash, "tree", Slash, "main",
                    Slash, "packages">>
\* The URL of the repository RefPlain names: another string, same locator.
RefUrl == GithubPrefix \o RefPlain
Refs == <<RefPlain, RefSubdir, RefUrl>>
\* The references the calls of Spec and SpecDisk draw.
RefSet == {Refs[i] : i \in 1..2}
AllRefs == {Refs[i] : i \in 1..Len(Refs)}
Keys == 1..Len(Refs)
\* The keys of the references in RefSet.
RefKeys == 1..2

\* A key taken from the canonical locator instead of the raw reference.
generateCacheKey_ofLocator(repoUrl) ==
  CHOOSE k \in Keys : parseGitUrl(Refs[k]) = parseGitUrl(repoUrl)

generateCacheKey(repoUrl) == CHOOSE k \in Keys : Refs[k] = repoUrl

\* getCachePath(cacheKey): the path string, named by its key.
getCachePath(cacheKey) == Str(cacheKey)

(***************************************************************************)
(* State.                                                                  *)
(***************************************************************************)
VARIABLES
  cacheDirExists, \* the cache root exists on disk
  dirs,           \* per cache key: the state of the entry directory
  metas,          \* per cache key: the <key>.meta.json file
  now,            \* Date.now()
  config,         \* the config object the CacheManager was built with
  pc,             \* position of the running call
  cur,            \* the running (or last) call
  pRef,           \* the reference given to parseGitUrl
  pOut,           \* the locator parseGitUrl returned for it
  extractor,      \* extractSubdirectory: the download directory and the call
  generator,      \* Generator.generate: the target directory and the call
  templates,      \* Config: the template names of each category
  installer       \* NpmUtils.installDependencies: the child, timer, promise

disk == <<cacheDirExists, dirs, metas>>
resolver == <<pRef, pOut>>
components == <<extractor, generator, templates, installer>>
vars ==
  <<cacheDirExists, dirs, metas, now, config, pc, cur, pRef, pOut,
    extractor, generator, templates, installer>>

\* "absent"; "partial": being written or removed; "raw": what the Fetcher
\* leaves when it completes; "extracted": what extractSubdirectory leaves
\* when it completes.
DirStates == {"absent", "partial", "raw", "extracted"}

AbsentFile == [kind |-> "absent", obj |-> EmptyObject]
\* A file whose content JSON.parse rejects (a truncated write included).
CorruptFile == [kind |-> "corrupt", obj |-> EmptyObject]
JsonFile(obj) == [kind |-> "json", obj |-> obj]

\* fileUtils.exists
DirExists(k) == dirs[k] # "absent"
MetaExists(k) == metas[k].kind # "absent"

(***************************************************************************)
(* The config object: Config (lib/core/Config.js) or the object literal of *)
(* the download script, whose get is `values[key] || defaultValue`.        *)
(***************************************************************************)
ConfigKinds == {"Config", "script"}

\* Config.get(key, defaultValue) for a key the configuration holds.
Config_get(value, defaultValue) == value

\* get: (key, defaultValue) => values[key] || defaultValue
Script_get(value, defaultValue) == IF value THEN value ELSE defaultValue

\* this.config.get('templates.cache', true)
CacheEnabled ==
  IF config.kind = "Config" THEN Config_get(config.cache, TRUE)
  ELSE Script_get(config.cache, TRUE)

(***************************************************************************)
(* Cache Store read path.                                                  *)
(***************************************************************************)
\* getMetadata(cacheKey): the parsed object, or a throw.
getMetadata(k) ==
  IF ~MetaExists(k) THEN [throws |-> TRUE, obj |-> EmptyObject]
  ELSE IF metas[k].kind = "corrupt" THEN [throws |-> TRUE, obj |-> EmptyObject]
  ELSE [throws |-> FALSE, obj |-> metas[k].obj]

\* now - metadata.cachedAt > this.cacheTime
Expired(obj) == GreaterThan(Minus(now, Get(obj, "cachedAt")), CacheTime)

isCacheValid(repoUrl) ==
  LET k == generateCacheKey(repoUrl)
  IN IF ~DirExists(k) \/ ~MetaExists(k) THEN FALSE
     ELSE IF getMetadata(k).throws THEN FALSE
     ELSE ~Expired(getMetadata(k).obj)

\* A refreshing lookup: a hit rewrites cachedAt.
getCachedTemplate_refresh(repoUrl, res) ==
  LET k == generateCacheKey(repoUrl)
  IN /\ res = IF isCacheValid(repoUrl) THEN getCachePath(k) ELSE Null
     /\ metas' = IF isCacheValid(repoUrl)
                 THEN [metas EXCEPT ![k].obj.cachedAt = Num(now)]
                 ELSE metas
     /\ UNCHANGED <<cacheDirExists, dirs>>

\* getCachedTemplate(repoUrl) returns res.
getCachedTemplate(repoUrl, res) ==
  /\ res = IF isCacheValid(repoUrl)
           THEN getCachePath(generateCacheKey(repoUrl)) ELSE Null
  /\ UNCHANGED disk

LookupResults == {Null} \cup {getCachePath(k) : k \in Keys}

(***************************************************************************)
(* Calls.  A call of getTemplate draws its reference, its options and the  *)
(* one I/O step of the call that fails, if any.                            *)
(***************************************************************************)
NoOptions == EmptyObject
Options ==
  { NoOptions,
    [NoOptions EXCEPT !.template = Str(0)],
    [NoOptions EXCEPT !.cachedAt = Num(0)] }

Faults == {"none", "initCacheDir", "removeOld", "fetch", "extract", "writeMeta"}

\* The error a failing step throws.
ErrorOf(step) ==
  CASE step = "initCacheDir" -> "EnsureDirError"
    [] step = "removeOld" -> "RemoveError"
    [] step = "fetch" -> "FetchError"
    [] step = "extract" -> "ExtractError"
    [] step = "writeMeta" -> "WriteError"
    [] OTHER -> "none"

NoCall ==
  [ op |-> "none", repoUrl |-> <<>>, options |-> NoOptions, fault |-> "none",
    fetches |-> 0, failed |-> "none", error |-> "none", result |-> Missing,
    fetchedAt |-> 0, startCorrupt |-> FALSE, afterClear |-> FALSE ]

Settled == {"idle", "returned", "rejected"}
Running == {"initCacheDir", "removeOld", "fetch", "fetching", "extract",
            "extracting", "writeMeta", "writingMeta", "catch", "catchMeta"}

CurKey == generateCacheKey(cur.repoUrl)

\* gitUrl.startsWith('direct:') && gitUrl.includes('#'), and a non-empty
\* gitUrl.split('#')[1].
NeedsExtract(gitUrl) ==
  /\ StartsWith(gitUrl, DirectPrefix)
  /\ Includes(gitUrl, Hash)
  /\ Split(gitUrl, Hash)[2] # <<>>

\* downloadOptions: {} for an archive locator, { clone: true } otherwise.
Strategy(gitUrl) == IF StartsWith(gitUrl, DirectPrefix) THEN "archive" ELSE "clone"

\* getTemplate(repoUrl, options), up to its first await on the disk.
getTemplate(repoUrl, options, fault) ==
  /\ pc \in Settled
  /\ LET call == [NoCall EXCEPT !.op = "getTemplate", !.repoUrl = repoUrl,
                                !.options = options, !.fault = fault,
                                !.startCorrupt =
                                  (metas[generateCacheKey(repoUrl)].kind = "corrupt"),
                                !.afterClear =
                                  (cur.op = "clearAllCache" /\ cur.failed = "none")]
     IN IF ~CacheEnabled
        THEN /\ cur' = call
             /\ pc' = "initCacheDir"
             /\ UNCHANGED disk
        ELSE \E res \in LookupResults :
               /\ getCachedTemplate(repoUrl, res)
               /\ IF res # Null
                  THEN /\ cur' = [call EXCEPT !.result = res, !.options = NoOptions,
                                              !.fault = "none"]
                       /\ pc' = "returned"
                  ELSE cur' = call /\ pc' = "initCacheDir"
  /\ UNCHANGED <<now, config, resolver, components>>

\* A direct call of getCachedTemplate(repoUrl).
getCachedTemplateCall(repoUrl) ==
  /\ pc \in Settled
  /\ \E res \in LookupResults :
       /\ getCachedTemplate(repoUrl, res)
       /\ cur' = [NoCall EXCEPT !.op = "getCachedTemplate", !.repoUrl = repoUrl,
                                !.result = res]
  /\ pc' = "returned"
  /\ UNCHANGED <<now, config, resolver, components>>

(***************************************************************************)
(* downloadAndCache, one await at a time.                                  *)
(***************************************************************************)
\* await this.initCacheDir()  (outside the try block)
initCacheDir ==
  /\ pc = "initCacheDir"
  /\ IF cur.fault = "initCacheDir" /\ ~cacheDirExists
     THEN /\ cur' = [cur EXCEPT !.failed = "initCacheDir",
                                !.error = ErrorOf("initCacheDir"),
                                !.options = NoOptions, !.fault = "none"]
          /\ pc' = "rejected"
          /\ UNCHANGED disk
     ELSE /\ cacheDirExists' = TRUE
          /\ pc' = "removeOld"
          /\ UNCHANGED <<dirs, metas, cur>>
  /\ UNCHANGED <<now, config, resolver, components>>

\* if (exists(cachePath)) await remove(cachePath)  (outside the try block)
removeOld ==
  /\ pc = "removeOld"
  /\ IF DirExists(CurKey) /\ cur.fault = "removeOld"
     THEN /\ \E d \in {dirs[CurKey], "partial"} :
               dirs' = [dirs EXCEPT ![CurKey] = d]
          /\ cur' = [cur EXCEPT !.failed = "removeOld",
                                !.error = ErrorOf("removeOld"),
                                !.options = NoOptions, !.fault = "none"]
          /\ pc' = "rejected"
     ELSE /\ dirs' = [dirs EXCEPT ![CurKey] = "absent"]
          /\ pc' = "fetch"
          /\ UNCHANGED cur
  /\ UNCHANGED <<cacheDirExists, metas, now, config, resolver, components>>

\* this.downloadGitRepo(gitUrl, cachePath, downloadOptions) is invoked.
downloadStart ==
  /\ pc = "fetch"
  /\ cur' = [cur EXCEPT !.fetches = @ + 1]
  /\ dirs' = [dirs EXCEPT ![CurKey] = "partial"]
  /\ pc' = "fetching"
  /\ UNCHANGED <<cacheDirExists, metas, now, config, resolver, components>>

\* The Fetcher settles: the directory is complete, or the Fetcher rejects
\* after its own best-effort cleanup.
downloadEnd ==
  /\ pc = "fetching"
  /\ IF cur.fault = "fetch"
     THEN /\ \E d \in {"absent", "partial"} :
               dirs' = [dirs EXCEPT ![CurKey] = d]
          /\ cur' = [cur EXCEPT !.failed = "fetch", !.error = ErrorOf("fetch"),
                                !.options = NoOptions, !.fault = "none"]
          /\ pc' = "catch"
     ELSE /\ dirs' = [dirs EXCEPT ![CurKey] = "raw"]
          /\ pc' = "extract"
          /\ UNCHANGED cur
  /\ UNCHANGED <<cacheDirExists, metas, now, config, resolver, components>>

\* extractSubdirectory(cachePath, subdirectory) starts, when the locator
\* carries a subdirectory.  It rejects before touching the directory (the
\* subdirectory is not there) or part-way through.
extractStart ==
  /\ pc = "extract"
  /\ IF ~NeedsExtract(parseGitUrl(cur.repoUrl))
     THEN /\ pc' = "writeMeta"
          /\ UNCHANGED <<dirs, cur>>
     ELSE IF cur.fault = "extract"
     THEN /\ \E d \in {"raw", "partial"} :
               dirs' = [dirs EXCEPT ![CurKey] = d]
          /\ cur' = [cur EXCEPT !.failed = "extract", !.error = ErrorOf("extract"),
                                !.options = NoOptions, !.fault = "none"]
          /\ pc' = "catch"
     ELSE /\ dirs' = [dirs EXCEPT ![CurKey] = "partial"]
          /\ pc' = "extracting"
          /\ UNCHANGED cur
  /\ UNCHANGED <<cacheDirExists, metas, now, config, resolver, components>>

extractEnd ==
  /\ pc = "extracting"
  /\ dirs' = [dirs EXCEPT ![CurKey] = "extracted"]
  /\ pc' = "writeMeta"
  /\ UNCHANGED <<cacheDirExists, metas, now, config, cur, resolver, components>>

\* const metadata = { repoUrl, cachedAt: Date.now(), cacheKey, ...options }
\* with Date.now() = t.
NewMetadata(repoUrl, t, options) ==
  Spread([EmptyObject EXCEPT !.repoUrl = Str(generateCacheKey(repoUrl)),
                             !.cachedAt = Num(t),
                             !.cacheKey = Str(generateCacheKey(repoUrl))],
         options)

\* writeFile(metadataPath, JSON.stringify(metadata)) starts: the file is
\* opened and holds part of the document, or the write rejects.
writeMetaStart ==
  /\ pc = "writeMeta"
  /\ IF cur.fault = "writeMeta"
     THEN /\ \E f \in {metas[CurKey], CorruptFile} :
               metas' = [metas EXCEPT ![CurKey] = f]
          /\ cur' = [cur EXCEPT !.failed = "writeMeta",
                                !.error = ErrorOf("writeMeta"),
                                !.options = NoOptions, !.fault = "none"]
          /\ pc' = "catch"
     ELSE /\ metas' = [metas EXCEPT ![CurKey] = CorruptFile]
          /\ cur' = [cur EXCEPT !.fetchedAt = now]
          /\ pc' = "writingMeta"
  /\ UNCHANGED <<cacheDirExists, dirs, now, config, resolver, components>>

\* The write completes and downloadAndCache returns cachePath.
writeMetaEnd ==
  /\ pc = "writingMeta"
  /\ metas' = [metas EXCEPT ![CurKey] =
                 JsonFile(JsonRoundTrip(
                   NewMetadata(cur.repoUrl, cur.fetchedAt, cur.options)))]
  /\ cur' = [cur EXCEPT !.result = getCachePath(CurKey), !.options = NoOptions,
                        !.fault = "none"]
  /\ pc' = "returned"
  /\ UNCHANGED <<cacheDirExists, dirs, now, config, resolver, components>>

\* A catch block that removes every entry directory of the cache root.
catchRemoveDir_all ==
  /\ pc = "catch"
  /\ dirs' = [k \in Keys |-> "absent"]
  /\ pc' = "catchMeta"
  /\ UNCHANGED <<cacheDirExists, metas, now, config, cur, resolver, components>>

\* catch: if (exists(cachePath)) await remove(cachePath)
catchRemoveDir ==
  /\ pc = "catch"
  /\ dirs' = [dirs EXCEPT ![CurKey] = "absent"]
  /\ pc' = "catchMeta"
  /\ UNCHANGED <<cacheDirExists, metas, now, config, cur, resolver, components>>

\* A catch block that removes the directory only.
catchRemoveMeta_keep ==
  /\ pc = "catchMeta"
  /\ pc' = "rejected"
  /\ UNCHANGED <<cacheDirExists, dirs, metas, now, config, cur, resolver, components>>

\* catch: if (exists(metadataPath)) await remove(metadataPath); throw error
catchRemoveMeta ==
  /\ pc = "catchMeta"
  /\ metas' = [metas EXCEPT ![CurKey] = AbsentFile]
  /\ pc' = "rejected"
  /\ UNCHANGED <<cacheDirExists, dirs, now, config, cur, resolver, components>>

\* The process is terminated in the middle of a call: nothing is cleaned
\* up, and the next run starts from what is on disk.
Interrupt ==
  /\ pc \in Running
  /\ pc' = "idle"
  /\ cur' = NoCall
  /\ UNCHANGED <<disk, now, config, resolver, components>>

\* Time passes.
Tick ==
  /\ now < MaxTime
  /\ now' = now + 1
  /\ UNCHANGED <<disk, config, pc, cur, resolver, components>>

(***************************************************************************)
(* Cache maintenance: removeCacheItem, cleanExpiredCache, clearAllCache,   *)
(* getCacheStats.  Each runs to completion between two calls.              *)
(***************************************************************************)
JsTrue == <<"boolean", 1>>
JsFalse == <<"boolean", 0>>

\* The fs.remove of removeCacheItem that throws, if any: that of the
\* directory (which it leaves whole, or partly removed) or of the metadata.
RemoveFaults == {"none", "dirKept", "dirPartial", "meta"}

\* A removeCacheItem that removes the directory only.
RemoveItem_dirOnly(d, m, fault) ==
  IF d # "absent" /\ fault \in {"dirKept", "dirPartial"}
  THEN [dir |-> IF fault = "dirKept" THEN d ELSE "partial", meta |-> m,
        ok |-> FALSE]
  ELSE [dir |-> "absent", meta |-> m, ok |-> TRUE]

\* removeCacheItem on an entry with directory d and metadata file m: what
\* it leaves, and whether it returns true.
RemoveItem(d, m, fault) ==
  IF d # "absent" /\ fault \in {"dirKept", "dirPartial"}
  THEN [dir |-> IF fault = "dirKept" THEN d ELSE "partial", meta |-> m,
        ok |-> FALSE]
  ELSE IF m.kind # "absent" /\ fault = "meta"
  THEN [dir |-> "absent", meta |-> m, ok |-> FALSE]
  ELSE [dir |-> "absent", meta |-> AbsentFile, ok |-> TRUE]

\* A call of removeCacheItem(cacheKey) with cacheKey = k.
removeCacheItem(k, fault) ==
  /\ pc \in Settled
  /\ LET r == RemoveItem(dirs[k], metas[k], fault)
     IN /\ dirs' = [dirs EXCEPT ![k] = r.dir]
        /\ metas' = [metas EXCEPT ![k] = r.meta]
        /\ cur' = [NoCall EXCEPT !.op = "removeCacheItem", !.repoUrl = Refs[k],
                                 !.failed = IF r.ok THEN "none" ELSE "remove",
                                 !.result = IF r.ok THEN JsTrue ELSE JsFalse]
  /\ pc' = "returned"
  /\ UNCHANGED <<cacheDirExists, now, config, resolver, components>>

\* The metadata files cleanExpiredCache acts on: those that parse and whose
\* age exceeds cacheTime.
ExpiredKeys ==
  {k \in Keys : ~getMetadata(k).throws /\ Expired(getMetadata(k).obj)}

\* A call of cleanExpiredCache(); faults[k] is the failing remove, if any,
\* of the removeCacheItem(k) it makes (for the entries that can be there:
\* those of RefKeys).
cleanExpiredCache(faults) ==
  /\ pc \in Settled
  /\ cacheDirExists' = TRUE
  /\ dirs' = [k \in Keys |->
               IF k \in ExpiredKeys
               THEN RemoveItem(dirs[k], metas[k], faults[k]).dir ELSE dirs[k]]
  /\ metas' = [k \in Keys |->
                IF k \in ExpiredKeys
                THEN RemoveItem(dirs[k], metas[k], faults[k]).meta ELSE metas[k]]
  /\ cur' = [NoCall EXCEPT
               !.op = "cleanExpiredCache",
               !.failed = IF \A k \in ExpiredKeys :
                               RemoveItem(dirs[k], metas[k], faults[k]).ok
                          THEN "none" ELSE "remove",
               !.result = Num(Cardinality(ExpiredKeys))]
  /\ pc' = "returned"
  /\ UNCHANGED <<now, config, resolver, components>>

\* A clearAllCache that empties the cache root and keeps it.
clearAllCache_keepRoot(fails) ==
  /\ pc \in Settled
  /\ ~fails
  /\ dirs' = [k \in Keys |-> "absent"]
  /\ metas' = [k \in Keys |-> AbsentFile]
  /\ cur' = [NoCall EXCEPT !.op = "clearAllCache", !.result = JsTrue]
  /\ pc' = "returned"
  /\ UNCHANGED <<cacheDirExists, now, config, resolver, components>>

\* A call of clearAllCache(); when the remove of the cache root throws it
\* has removed some of the directories and files under it (of the entries
\* that can be there: those of RefKeys).
clearAllCache(fails) ==
  /\ pc \in Settled
  /\ IF cacheDirExists /\ fails
     THEN /\ \E kd \in SUBSET RefKeys, km \in SUBSET RefKeys :
               /\ dirs' = [k \in Keys |-> IF k \in kd THEN "absent" ELSE dirs[k]]
               /\ metas' = [k \in Keys |->
                              IF k \in km THEN AbsentFile ELSE metas[k]]
          /\ cur' = [NoCall EXCEPT !.op = "clearAllCache", !.failed = "remove",
                                   !.result = JsFalse]
          /\ UNCHANGED cacheDirExists
     ELSE /\ cacheDirExists' = FALSE
          /\ dirs' = [k \in Keys |-> "absent"]
          /\ metas' = [k \in Keys |-> AbsentFile]
          /\ cur' = [NoCall EXCEPT !.op = "clearAllCache", !.result = JsTrue]
  /\ pc' = "returned"
  /\ UNCHANGED <<now, config, resolver, components>>

\* { totalItems, totalSize, expiredItems } without totalSize.
Stats(totalItems, expiredItems) == <<"stats", totalItems, expiredItems>>

\* A getCacheStats that creates the cache root first, as cleanExpiredCache
\* does.
getCacheStats_initCacheDir ==
  /\ pc \in Settled
  /\ cacheDirExists' = TRUE
  /\ cur' = [NoCall EXCEPT
               !.op = "getCacheStats",
               !.result = Stats(Cardinality({k \in Keys : MetaExists(k)}),
                                Cardinality(ExpiredKeys))]
  /\ pc' = "returned"
  /\ UNCHANGED <<dirs, metas, now, config, resolver, components>>

\* A call of getCacheStats().
getCacheStats ==
  /\ pc \in Settled
  /\ cur' = [NoCall EXCEPT
               !.op = "getCacheStats",
               !.result = IF ~cacheDirExists THEN Stats(0, 0)
                          ELSE Stats(Cardinality({k \in Keys : MetaExists(k)}),
                                     Cardinality(ExpiredKeys))]
  /\ pc' = "returned"
  /\ UNCHANGED <<disk, now, config, resolver, components>>

(***************************************************************************)
(* The resolver on enumerated references.                                  *)
(***************************************************************************)
Owners == {<<"vitejs">>, <<"tree">>}
Repos == {<<"vite">>, <<"tree">>}
Branches == {<<"main">>, <<"dev">>, <<"tree">>}
SegmentNames == {"packages", "create-vite", "template-vanilla", "tree"}

\* The subdirectories of 1..MaxSubdirSegs segments, as lists of segments.
Subdirs == UNION {[1..n -> {<<x>> : x \in SegmentNames}] : n \in 1..MaxSubdirSegs}

\* https://github.com/<owner>/<repo>
RepoUrl(owner, repo) == GithubPrefix \o owner \o <<Slash>> \o repo
\* https://github.com/<owner>/<repo>/tree/<branch>
TreeUrl(owner, repo, branch) ==
  RepoUrl(owner, repo) \o <<Slash, "tree", Slash>> \o branch
\* https://github.com/<owner>/<repo>/tree/<branch>/<subdir...>
TreeSubdirUrl(owner, repo, branch, segs) ==
  TreeUrl(owner, repo, branch) \o <<Slash>> \o Join(segs, Slash)

NoSegs == <<>>
UrlReferences ==
  {[form |-> "repo", owner |-> o, repo |-> r, branch |-> MainBranch,
    segs |-> NoSegs, text |-> RepoUrl(o, r)] : o \in Owners, r \in Repos}
  \cup
  {[form |-> "tree", owner |-> o, repo |-> r, branch |-> b,
    segs |-> NoSegs, text |-> TreeUrl(o, r, b)] :
      o \in Owners, r \in Repos, b \in Branches}
  \cup
  {[form |-> "treeSubdir", owner |-> x[1], repo |-> x[2], branch |-> x[3],
    segs |-> x[4], text |-> TreeSubdirUrl(x[1], x[2], x[3], x[4])] :
      x \in Owners \X Repos \X Branches \X Subdirs}

\* Branch names of the shorthand: also one that holds a "/".
ShorthandBranches == Branches \cup {<<"feature", Slash, "x">>}

\* <owner>/<repo>
ShortRef(owner, repo) == owner \o <<Slash>> \o repo
\* <owner>/<repo>#<branch>
ShortBranchRef(owner, repo, branch) == ShortRef(owner, repo) \o <<Hash>> \o branch
\* <owner>/<repo>#<branch>:<subdir>
ShortSubdirRef(owner, repo, branch, segs) ==
  ShortBranchRef(owner, repo, branch) \o <<Colon>> \o Join(segs, Slash)

ShorthandReferences ==
  {[form |-> "short", owner |-> o, repo |-> r, branch |-> MainBranch,
    segs |-> NoSegs, text |-> ShortRef(o, r)] : o \in Owners, r \in Repos}
  \cup
  {[form |-> "shortBranch", owner |-> o, repo |-> r, branch |-> b,
    segs |-> NoSegs, text |-> ShortBranchRef(o, r, b)] :
      o \in Owners, r \in Repos, b \in ShorthandBranches}
  \cup
  {[form |-> "shortSubdir", owner |-> x[1], repo |-> x[2], branch |-> x[3],
    segs |-> x[4], text |-> ShortSubdirRef(x[1], x[2], x[3], x[4])] :
      x \in Owners \X Repos \X ShorthandBranches \X Subdirs}

\* References that already carry the 'direct:' prefix: archive locators of
\* GitHub, with and without a subdirectory, and an archive of another host.
DirectTexts ==
  {DirectZip(ShortRef(o, r), b) : o \in Owners, r \in Repos, b \in Branches}
  \cup {DirectZipSub(ShortRef(<<"user">>, <<"repo">>), <<"dev">>,
                      <<"src", Slash, "app">>),
        <<"direct", Colon, "https", Colon, Slash, Slash, "example.com", Slash,
          "template.zip">>}

DirectReferences ==
  {[form |-> "direct", owner |-> <<>>, repo |-> <<>>, branch |-> <<>>,
    segs |-> NoSegs, text |-> t] : t \in DirectTexts}

\* References of no form the resolver documents: a bare name, URLs and
\* host-prefixed shorthands of other hosts, an scp-style remote.
OtherTexts ==
  {<<"my-template">>,
   <<"https", Colon, Slash, Slash, "gitlab.com", Slash, "user", Slash, "repo">>,
   <<"gitlab", Colon, "user", Slash, "repo">>,
   <<"bitbucket", Colon, "user", Slash, "repo", Hash, "dev">>,
   <<"git@gitlab.com", Colon, "user", Slash, "repo.git">>,
   <<"user", Slash, "repo", Slash, "extra">>,
   <<"github.com">>,
   <<"https", Colon, Slash, Slash, "github.com", Slash, "user">>}

OtherReferences ==
  {[form |-> "other", owner |-> <<>>, repo |-> <<>>, branch |-> <<>>,
    segs |-> NoSegs, text |-> t] : t \in OtherTexts}

\* Shorthand references whose subdirectory has a segment that holds a "#"
\* (a directory named C#).
HashSubdirs ==
  {<<<<"src">>, <<"C", Hash>>>>, <<<<"src">>, <<"C", Hash>>, <<"app">>>>}

HashSubdirReferences ==
  {[form |-> "shortHashSubdir", owner |-> x[1], repo |-> x[2], branch |-> x[3],
    segs |-> x[4], text |-> ShortSubdirRef(x[1], x[2], x[3], x[4])] :
      x \in Owners \X Repos \X Branches \X HashSubdirs}

References ==
  UrlReferences \cup ShorthandReferences \cup HashSubdirReferences
    \cup DirectReferences \cup OtherReferences

NoReference ==
  [form |-> "none", owner |-> <<>>, repo |-> <<>>, branch |-> <<>>,
   segs |-> NoSegs, text |-> <<>>]

\* gitUrl = this.parseGitUrl(repoUrl), on the reference drawn initially.
Resolve ==
  /\ pc = "idle"
  /\ pRef # NoReference
  /\ pOut' = parseGitUrl(pRef.text)
  /\ pc' = "returned"
  /\ UNCHANGED <<disk, now, config, cur, pRef, components>>

\* parseGitUrl called a second time on the same reference.
ResolveAgain ==
  /\ pc = "returned"
  /\ pRef # NoReference
  /\ pOut' = parseGitUrl(pRef.text)
  /\ pc' = "resolvedAgain"
  /\ UNCHANGED <<disk, now, config, cur, pRef, components>>

\* parseGitUrl called on the locator it returned.
ResolveOutput ==
  /\ pc = "returned"
  /\ pRef # NoReference
  /\ pOut' = parseGitUrl(pOut)
  /\ pc' = "resolvedOutput"
  /\ UNCHANGED <<disk, now, config, cur, pRef, components>>

\* The subdirectory handed to extractSubdirectory: gitUrl.split('#')[1].
ExtractArgument(gitUrl) == Split(gitUrl, Hash)[2]

\* What downloadAndCache decides from gitUrl: the download options, whether
\* extractSubdirectory is called, and on which subdirectory.
Decisions(gitUrl) ==
  [strategy |-> Strategy(gitUrl),
   extract |-> NeedsExtract(gitUrl),
   subdirectory |-> IF NeedsExtract(gitUrl) THEN ExtractArgument(gitUrl) ELSE <<>>]

\* downloadAndCache takes its decisions on the locator parseGitUrl returned.
Decide ==
  /\ pc = "returned"
  /\ pRef # NoReference
  /\ cur' = [NoCall EXCEPT !.op = "downloadAndCache", !.result = Decisions(pOut)]
  /\ pc' = "decided"
  /\ UNCHANGED <<disk, now, config, resolver, components>>

\* Placeholders of the components not yet running.
NoGenerateCall ==
  [validName |-> TRUE, force |-> "unset", template |-> "none", fault |-> "none"]
NoGeneration ==
  [pc |-> "none", target |-> "absent", before |-> "absent", force |-> FALSE,
   call |-> NoGenerateCall, failed |-> "none", error |-> "none", runs |-> 0]
NoTemplateOp == [op |-> "none", name |-> "", result |-> "none"]
NoTemplates ==
  [pc |-> "none", aliased |-> FALSE, official |-> {}, community |-> {},
   custom |-> {}, defaultOfficial |-> {}, defaultCommunity |-> {},
   last |-> NoTemplateOp]
\* The exit code `null` of a child that a signal ended.
NullCode == -1
NoInstall ==
  [pc |-> "none", manager |-> "", silent |-> TRUE, child |-> "none",
   timer |-> "none", errored |-> FALSE, closed |-> FALSE, code |-> NullCode,
   first |-> "none", result |-> "none", settlements |-> 0]

(***************************************************************************)
(* CacheManager.extractSubdirectory on a file tree.                        *)
(* A tree is the set of its nodes; a node is a path below downloadPath (a  *)
(* sequence of names) and a kind.  downloadPath itself is the path <<>>.   *)
(***************************************************************************)
Node(path, kind) == [path |-> path, kind |-> kind]

\* fileUtils.exists(join(downloadPath, ...p))
Exists(t, p) == p = <<>> \/ \E n \in t : n.path = p
\* stats.isDirectory()
IsDirectory(t, p) == p = <<>> \/ \E n \in t : n.path = p /\ n.kind = "dir"
\* The nodes strictly below p.
Below(t, p) ==
  {n \in t : Len(n.path) > Len(p) /\ SubSeq(n.path, 1, Len(p)) = p}
\* fileUtils.readDir(p): the names of the entries of p.
readDir(t, p) ==
  {n.path[Len(p) + 1] : n \in {m \in Below(t, p) : Len(m.path) = Len(p) + 1}}
\* The node n of below src, seen below dest.
Rebase(n, src, dest) ==
  Node(dest \o SubSeq(n.path, Len(src) + 1, Len(n.path)), n.kind)
\* fileUtils.remove(p)
remove(t, p) == {n \in t : n.path # p} \ Below(t, p)
\* fileUtils.ensureDir(p)
ensureDir(t, p) == IF Exists(t, p) THEN t ELSE t \cup {Node(p, "dir")}
\* fileUtils.copy(src, dest) of a directory into an existing directory.
copy(t, src, dest) == t \cup {Rebase(n, src, dest) : n \in Below(t, src)}
\* fileUtils.move(src, dest) onto a path that does not exist.
move(t, src, dest) ==
  (remove(t, src) \cup {Node(dest, n.kind) : n \in {m \in t : m.path = src}})
    \cup {Rebase(n, src, dest) : n \in Below(t, src)}

\* 'temp-extract'
TempExtract == "temp-extract"

\* rootPath: the single entry of downloadPath when it is a directory,
\* downloadPath itself otherwise.
RootPathOf(t) ==
  LET files == readDir(t, <<>>)
  IN IF Cardinality(files) = 1 /\ \A f \in files : IsDirectory(t, <<f>>)
     THEN <<CHOOSE f \in files : TRUE>>
     ELSE <<>>

NoError == [code |-> "none", segment |-> "", at |-> <<>>, siblings |-> {}]

\* The walk of lines 931-950 over subdirParts from rootPath: readDir of the
\* current directory, then the test of the next segment.  It throws at the
\* first segment that does not exist, or in readDir when the current path
\* is not a directory.
WalkError(t, rootPath, subdirParts) ==
  LET missing == {i \in 1..Len(subdirParts) :
                    ~Exists(t, rootPath \o SubSeq(subdirParts, 1, i))}
      i == CHOOSE j \in missing : \A l \in missing : j <= l
      currentPath == rootPath \o SubSeq(subdirParts, 1, i - 1)
  IN IF missing = {}
     THEN [NoError EXCEPT !.code = "SubdirectoryNotFound"]
     ELSE IF ~IsDirectory(t, currentPath)
     THEN [NoError EXCEPT !.code = "ENOTDIR", !.at = currentPath]
     ELSE [code |-> "SubdirectoryNotFound", segment |-> subdirParts[i],
           at |-> currentPath, siblings |-> readDir(t, currentPath)]

\* Lines 957-969: the staging directory is created, the subdirectory is
\* copied into it, and every entry listed at the start is removed, except
\* one named 'temp-extract'.
Staged(t, sourcePath) ==
  LET files == readDir(t, <<>>)
      copied == copy(ensureDir(t, <<TempExtract>>), sourcePath, <<TempExtract>>)
  IN {n \in copied :
        n.path[1] = TempExtract \/ n.path[1] \notin files}

\* Lines 972-977: the entries of the staging directory whose move throws
\* ('dest already exists'), and the tree after the entries of `names` have
\* been moved.
MoveConflicts(t) ==
  {f \in readDir(t, <<TempExtract>>) : Exists(t, <<f>>)}

RECURSIVE MovedOut(_, _)
MovedOut(t, names) ==
  IF names = {} THEN t
  ELSE LET f == CHOOSE x \in names : TRUE
       IN MovedOut(move(t, <<TempExtract, f>>, <<f>>), names \ {f})

NoExtraction ==
  [pc |-> "none", archive |-> {}, tree |-> {}, before |-> {},
   subdirectory |-> <<>>,
   wrapped |-> FALSE, runs |-> 0, error |-> NoError]

\* extractSubdirectory(downloadPath, subdirectory), on the tree as it is.
extractSubdirectory ==
  /\ extractor.pc \in {"ready", "done"}
  /\ extractor.runs < 2
  /\ LET t == extractor.tree
         rootPath == RootPathOf(t)
         sourcePath == rootPath \o extractor.subdirectory
         run == [extractor EXCEPT !.runs = @ + 1, !.before = t]
     IN IF ~Exists(t, sourcePath)
        THEN extractor' =
               [run EXCEPT !.pc = "failed",
                           !.error = WalkError(t, rootPath, extractor.subdirectory)]
        ELSE LET staged == Staged(t, sourcePath)
                 conflicts == MoveConflicts(staged)
             IN IF conflicts = {}
                THEN extractor' =
                       [run EXCEPT
                          !.pc = "done",
                          !.tree = remove(MovedOut(staged,
                                            readDir(staged, <<TempExtract>>)),
                                          <<TempExtract>>)]
                ELSE \E moved \in SUBSET (readDir(staged, <<TempExtract>>)
                                            \ conflicts) :
                       extractor' =
                         [run EXCEPT
                            !.pc = "failed",
                            !.tree = MovedOut(staged, moved),
                            !.error = [NoError EXCEPT !.code = "DestExists",
                                                      !.at = <<TempExtract>>]]
  /\ UNCHANGED <<disk, now, config, pc, cur, resolver, generator, templates,
                 installer>>

(***************************************************************************)
(* The download directories extractSubdirectory is given.                  *)
(***************************************************************************)
Wrapper == "repo-main"

\* What packages/foo may hold: a file, a directory with a file in it, and
\* an entry with the name of the staging directory.
ContentNames == {"index.js", "src", TempExtract}
ContentNodes(at, names) ==
  {Node(at \o <<"index.js">>, "file") : x \in names \cap {"index.js"}}
  \cup {Node(at \o <<"src">>, "dir") : x \in names \cap {"src"}}
  \cup {Node(at \o <<"src", "main.js">>, "file") : x \in names \cap {"src"}}
  \cup {Node(at \o <<TempExtract>>, "dir") : x \in names \cap {TempExtract}}

\* The repository: packages/foo with its content, optionally packages/bar,
\* a README file and a docs directory; inside the wrapper directory, or
\* unpacked directly into downloadPath.
Layout(wrapped, readme, docs, bar, names) ==
  LET top == IF wrapped THEN <<Wrapper>> ELSE <<>>
  IN {Node(top, "dir") : x \in {wrapped} \ {FALSE}}
     \cup {Node(top \o <<"packages">>, "dir"),
           Node(top \o <<"packages", "foo">>, "dir")}
     \cup ContentNodes(top \o <<"packages", "foo">>, names)
     \cup {Node(top \o <<"packages", "bar">>, "dir") : x \in {bar} \ {FALSE}}
     \cup {Node(top \o <<"README">>, "file") : x \in {readme} \ {FALSE}}
     \cup {Node(top \o <<"docs">>, "dir") : x \in {docs} \ {FALSE}}

\* The subdirectories asked for: two that exist, and paths whose first or
\* second segment does not exist or is a file.
Subdirectories ==
  {<<"packages">>, <<"packages", "foo">>, <<"packages", "nope">>,
   <<"nope", "foo">>, <<"README", "foo">>}

InitExtract ==
  /\ cacheDirExists = FALSE
  /\ dirs = [k \in Keys |-> "absent"]
  /\ metas = [k \in Keys |-> AbsentFile]
  /\ now = 0
  /\ config = [kind |-> "Config", cache |-> TRUE]
  /\ pc = "idle"
  /\ cur = NoCall
  /\ pRef = NoReference
  /\ pOut = <<>>
  /\ \E wrapped, readme, docs, bar \in BOOLEAN, names \in SUBSET ContentNames,
        subdirectory \in Subdirectories :
       extractor = [NoExtraction EXCEPT
                      !.pc = "ready",
                      !.archive = Layout(wrapped, readme, docs, bar, names),
                      !.tree = Layout(wrapped, readme, docs, bar, names),
                      !.before = Layout(wrapped, readme, docs, bar, names),
                      !.subdirectory = subdirectory,
                      !.wrapped = wrapped]
  /\ generator = NoGeneration
  /\ templates = NoTemplates
  /\ installer = NoInstall

NextExtract == extractSubdirectory

SpecExtract == InitExtract /\ [][NextExtract]_vars

(***************************************************************************)
(* Generator.generate (lib/core/Generator.js).                             *)
(* target is the state of targetDir: "absent", "user" (a directory that    *)
(* was there before the call, with its owner's content), or what generate  *)
(* has made of it so far.  The Generator is a singleton: this.options      *)
(* lives on from one call to the next.                                     *)
(***************************************************************************)
MaxGenerations == 2

GenerateFaults ==
  {"none", "remove", "ensureDir", "template", "copy", "process",
   "packageJson", "install"}

GenerateCalls ==
  [validName : BOOLEAN, force : {"unset", "true", "false"},
   template : {"github", "templatePath", "none"}, fault : GenerateFaults]

\* The frame of the Generator's steps.
GeneratorOnly ==
  UNCHANGED <<disk, now, config, pc, cur, resolver, extractor, templates,
              installer>>

\* A step of the try block throws: control goes to the catch block.
Throw(step, code) ==
  generator' = [generator EXCEPT !.pc = "catch", !.failed = step, !.error = code]

\* A step of the try block is done.
Proceed(next, target) ==
  generator' = [generator EXCEPT !.pc = next, !.target = target]

\* generate(projectName, options): init(), setOptions(options), targetDir.
generate(call) ==
  /\ generator.pc \in {"idle", "returned", "rejected"}
  /\ generator.runs < MaxGenerations
  /\ generator' =
       [generator EXCEPT !.pc = "validate",
                         !.call = call,
                         !.force = IF call.force = "unset" THEN @
                                   ELSE call.force = "true",
                         !.before = generator.target,
                         !.failed = "none",
                         !.error = "none",
                         !.runs = @ + 1]
  /\ GeneratorOnly

validateProject ==
  /\ generator.pc = "validate"
  /\ IF ~generator.call.validName
     THEN Throw("validate", "INVALID_PROJECT_NAME")
     ELSE IF generator.target # "absent"
     THEN IF ~generator.force
          THEN Throw("validate", "DIRECTORY_EXISTS")
          ELSE IF generator.call.fault = "remove"
          THEN Throw("validate", "VALIDATION_ERROR")
          ELSE Proceed("createDir", "absent")
     ELSE Proceed("createDir", generator.target)
  /\ GeneratorOnly

createProjectDirectory ==
  /\ generator.pc = "createDir"
  /\ IF generator.call.fault = "ensureDir"
     THEN Throw("createDir", "PERMISSION_DENIED")
     ELSE Proceed("template", "empty")
  /\ GeneratorOnly

\* Step 3 up to copyTemplate: options.template, options.templatePath or
\* neither.
getTemplatePath ==
  /\ generator.pc = "template"
  /\ IF generator.call.template = "github"
     THEN IF generator.call.fault = "template"
          THEN Throw("template", "TEMPLATE_DOWNLOAD_ERROR")
          ELSE Proceed("copy", generator.target)
     ELSE IF generator.call.template = "templatePath"
     THEN Proceed("copy", generator.target)
     ELSE Throw("template", "NO_TEMPLATE_SPECIFIED")
  /\ GeneratorOnly

\* A failing copy leaves what it had copied.
copyTemplate ==
  /\ generator.pc = "copy"
  /\ IF generator.call.fault = "template"
     THEN Throw("copy", "TEMPLATE_NOT_FOUND")
     ELSE IF generator.call.fault = "copy"
     THEN \E t \in {"empty", "partial"} :
            generator' = [generator EXCEPT !.pc = "catch", !.failed = "copy",
                                           !.error = "TEMPLATE_COPY_ERROR",
                                           !.target = t]
     ELSE Proceed("detect", "template")
  /\ GeneratorOnly

\* Never throws: on an error it falls back to the default manager.
detectAndSetPackageManager ==
  /\ generator.pc = "detect"
  /\ Proceed("process", generator.target)
  /\ GeneratorOnly

processTemplateVariables ==
  /\ generator.pc = "process"
  /\ IF generator.call.fault = "process"
     THEN Throw("process", "TEMPLATE_PROCESS_ERROR")
     ELSE Proceed("packageJson", "processed")
  /\ GeneratorOnly

updatePackageJson ==
  /\ generator.pc = "packageJson"
  /\ IF generator.call.fault = "packageJson"
     THEN Throw("packageJson", "PACKAGE_JSON_UPDATE_ERROR")
     ELSE Proceed("git", "updated")
  /\ GeneratorOnly

\* Never throws: returns true when git fails.
initializeGit ==
  /\ generator.pc = "git"
  /\ Proceed("install", generator.target)
  /\ GeneratorOnly

\* Generator.installDependencies(targetDir).
Generator_installDependencies ==
  /\ generator.pc = "install"
  /\ IF generator.call.fault = "install"
     THEN Throw("install", "DEPENDENCY_INSTALL_FAILED")
     ELSE Proceed("complete", "project")
  /\ GeneratorOnly

\* showCompletionMessage and return true.
showCompletionMessage ==
  /\ generator.pc = "complete"
  /\ Proceed("returned", generator.target)
  /\ GeneratorOnly

\* The catch block of generate: remove targetDir when it exists, whatever
\* was thrown, then rethrow.  When the remove of validateProject has just
\* rejected on this directory, this remove may reject again; the rejection
\* is logged and dropped.
catchCleanup ==
  /\ generator.pc = "catch"
  /\ \E t \in (IF generator.target # "absent" /\ generator.call.fault = "remove"
                  /\ generator.error = "VALIDATION_ERROR"
               THEN {"absent", generator.target} ELSE {"absent"}) :
       generator' = [generator EXCEPT !.pc = "rejected", !.target = t]
  /\ GeneratorOnly

InitGenerate ==
  /\ cacheDirExists = FALSE
  /\ dirs = [k \in Keys |-> "absent"]
  /\ metas = [k \in Keys |-> AbsentFile]
  /\ now = 0
  /\ config = [kind |-> "Config", cache |-> TRUE]
  /\ pc = "idle"
  /\ cur = NoCall
  /\ pRef = NoReference
  /\ pOut = <<>>
  /\ extractor = NoExtraction
  /\ \E t \in {"absent", "user"} :
       generator = [NoGeneration EXCEPT !.pc = "idle", !.target = t, !.before = t]
  /\ templates = NoTemplates
  /\ installer = NoInstall

NextGenerate ==
  \/ \E call \in GenerateCalls : generate(call)
  \/ validateProject
  \/ createProjectDirectory
  \/ getTemplatePath
  \/ copyTemplate
  \/ detectAndSetPackageManager
  \/ processTemplateVariables
  \/ updatePackageJson
  \/ initializeGit
  \/ Generator_installDependencies
  \/ showCompletionMessage
  \/ catchCleanup

SpecGenerate == InitGenerate /\ [][NextGenerate]_vars

(***************************************************************************)
(* The template registry of Config (lib/core/Config.js).                   *)
(* A category is the set of its template names.  this.config is a shallow  *)
(* copy of this.defaultConfig until a configuration file is merged: then   *)
(* this.config.templates and this.defaultConfig.templates are one object   *)
(* (aliased), and what is set on one is set on the other.                  *)
(***************************************************************************)
DefaultOfficial == {"vite-vanilla", "vite-vue"}
DefaultCommunity == {"react-admin"}
TemplateNames == DefaultOfficial \cup DefaultCommunity \cup {"my-template"}

TemplatesOnly ==
  UNCHANGED <<disk, now, config, pc, cur, resolver, extractor, generator,
              installer>>

\* this.set('templates.<category>', ...) for the three categories, followed
\* by the result of the operation.
SetTemplates(official, community, custom, op, name, result) ==
  templates' =
    [templates EXCEPT
       !.official = official,
       !.community = community,
       !.custom = custom,
       !.defaultOfficial = IF templates.aliased THEN official ELSE @,
       !.defaultCommunity = IF templates.aliased THEN community ELSE @,
       !.last = [op |-> op, name |-> name, result |-> result]]

\* The result of `await this.save()`.
Saved(saved) == IF saved THEN "true" ELSE "false"

\* name in { ...official, ...community, ...custom }
hasTemplate(name) ==
  name \in templates.official \cup templates.community \cup templates.custom

addCustomTemplate(name, saved) ==
  /\ templates.pc = "loaded"
  /\ IF hasTemplate(name)
     THEN SetTemplates(templates.official, templates.community,
                       templates.custom, "addCustomTemplate", name, "throws")
     ELSE SetTemplates(templates.official, templates.community,
                       templates.custom \cup {name},
                       "addCustomTemplate", name, Saved(saved))
  /\ TemplatesOnly

removeTemplate(name, saved) ==
  /\ templates.pc = "loaded"
  /\ IF name \in templates.custom
     THEN SetTemplates(templates.official, templates.community,
                       templates.custom \ {name},
                       "removeTemplate", name, Saved(saved))
     ELSE IF name \in templates.official
     THEN SetTemplates(templates.official \ {name}, templates.community,
                       templates.custom, "removeTemplate", name, Saved(saved))
     ELSE IF name \in templates.community
     THEN SetTemplates(templates.official, templates.community \ {name},
                       templates.custom, "removeTemplate", name, Saved(saved))
     ELSE SetTemplates(templates.official, templates.community,
                       templates.custom, "removeTemplate", name, "throws")
  /\ TemplatesOnly

restoreOfficialTemplates(saved) ==
  /\ templates.pc = "loaded"
  /\ SetTemplates(templates.defaultOfficial, templates.community,
                  templates.custom, "restoreOfficialTemplates", "", Saved(saved))
  /\ TemplatesOnly

restoreCommunityTemplates(saved) ==
  /\ templates.pc = "loaded"
  /\ SetTemplates(templates.official, templates.defaultCommunity,
                  templates.custom, "restoreCommunityTemplates", "", Saved(saved))
  /\ TemplatesOnly

restoreDefaultTemplates(saved) ==
  /\ templates.pc = "loaded"
  /\ SetTemplates(templates.defaultOfficial, templates.defaultCommunity,
                  templates.custom, "restoreDefaultTemplates", "", Saved(saved))
  /\ TemplatesOnly

\* A loaded Config: the defaults themselves (no configuration file), or the
\* templates of a configuration file, whose categories share no name.
LoadedTemplates ==
  { [NoTemplates EXCEPT !.pc = "loaded", !.aliased = TRUE,
                        !.official = DefaultOfficial,
                        !.community = DefaultCommunity,
                        !.defaultOfficial = DefaultOfficial,
                        !.defaultCommunity = DefaultCommunity] }
  \cup
  { [NoTemplates EXCEPT !.pc = "loaded", !.aliased = FALSE,
                        !.official = x[1], !.community = x[2], !.custom = x[3],
                        !.defaultOfficial = DefaultOfficial,
                        !.defaultCommunity = DefaultCommunity] :
      x \in {y \in (SUBSET DefaultOfficial) \X (SUBSET DefaultCommunity)
                    \X (SUBSET TemplateNames) :
               y[3] \cap (y[1] \cup y[2]) = {}} }

InitTemplates ==
  /\ cacheDirExists = FALSE
  /\ dirs = [k \in Keys |-> "absent"]
  /\ metas = [k \in Keys |-> AbsentFile]
  /\ now = 0
  /\ config = [kind |-> "Config", cache |-> TRUE]
  /\ pc = "idle"
  /\ cur = NoCall
  /\ pRef = NoReference
  /\ pOut = <<>>
  /\ extractor = NoExtraction
  /\ generator = NoGeneration
  /\ templates \in LoadedTemplates
  /\ installer = NoInstall

NextTemplates ==
  \/ \E name \in TemplateNames, saved \in BOOLEAN : addCustomTemplate(name, saved)
  \/ \E name \in TemplateNames, saved \in BOOLEAN : removeTemplate(name, saved)
  \/ \E saved \in BOOLEAN : restoreOfficialTemplates(saved)
  \/ \E saved \in BOOLEAN : restoreCommunityTemplates(saved)
  \/ \E saved \in BOOLEAN : restoreDefaultTemplates(saved)

SpecTemplates == InitTemplates /\ [][NextTemplates]_vars

(***************************************************************************)
(* NpmUtils.installDependencies: a promise, a child process and a timer.   *)
(* pc is the state of the promise; first is the first of the three         *)
(* callbacks that ran.                                                     *)
(***************************************************************************)
Managers == {"npm", "yarn", "pnpm"}
ExitCodes == {0, 1, 127, NullCode}

InstallerOnly ==
  UNCHANGED <<disk, now, config, pc, cur, resolver, extractor, generator,
              templates>>

\* resolve(value) on the record i: only the first call settles the promise.
resolve(i, value) ==
  IF i.pc = "pending"
  THEN [i EXCEPT !.pc = "settled",
                 !.result = IF value THEN "true" ELSE "false",
                 !.settlements = @ + 1]
  ELSE i

\* clearTimeout(timer)
clearTimeout(i) == [i EXCEPT !.timer = IF @ = "armed" THEN "cleared" ELSE @]

\* The first callback that ran.
Note(i, event) == [i EXCEPT !.first = IF @ = "none" THEN event ELSE @]

\* installDependencies(dirPath, { manager, silent }): spawn and setTimeout.
installDependencies(manager, silent) ==
  /\ installer.pc = "idle"
  /\ installer' = [installer EXCEPT !.pc = "pending", !.manager = manager,
                                    !.silent = silent, !.child = "running",
                                    !.timer = "armed"]
  /\ InstallerOnly

\* The setTimeout callback: child.kill() and resolve(false).
onTimeout ==
  /\ installer.timer = "armed"
  /\ installer' =
       resolve(Note([installer EXCEPT
                       !.timer = "fired",
                       !.child = IF @ = "running" THEN "killed" ELSE @],
                    "timeout"),
               FALSE)
  /\ InstallerOnly

\* A close handler that reports success whatever the exit code.
onClose_anyCode(code) ==
  /\ installer.pc \in {"pending", "settled"}
  /\ ~installer.closed
  /\ installer' =
       resolve(Note(clearTimeout([installer EXCEPT !.closed = TRUE,
                                                   !.code = code,
                                                   !.child = "closed"]),
                    "close"),
               TRUE)
  /\ InstallerOnly

\* child.on('close', (code) => ...): the last event of the child.  A child
\* that was killed closes with code null, or with its own exit code when it
\* had ended before the signal arrived.
onClose(code) ==
  /\ installer.pc \in {"pending", "settled"}
  /\ ~installer.closed
  /\ installer' =
       resolve(Note(clearTimeout([installer EXCEPT !.closed = TRUE,
                                                   !.code = code,
                                                   !.child = "closed"]),
                    "close"),
               code = 0)
  /\ InstallerOnly

\* child.on('error', ...): the child could not be spawned or killed.
onError ==
  /\ installer.pc \in {"pending", "settled"}
  /\ ~installer.closed
  /\ ~installer.errored
  /\ installer' =
       resolve(Note(clearTimeout([installer EXCEPT !.errored = TRUE]), "error"),
               FALSE)
  /\ InstallerOnly

InitInstall ==
  /\ cacheDirExists = FALSE
  /\ dirs = [k \in Keys |-> "absent"]
  /\ metas = [k \in Keys |-> AbsentFile]
  /\ now = 0
  /\ config = [kind |-> "Config", cache |-> TRUE]
  /\ pc = "idle"
  /\ cur = NoCall
  /\ pRef = NoReference
  /\ pOut = <<>>
  /\ extractor = NoExtraction
  /\ generator = NoGeneration
  /\ templates = NoTemplates
  /\ installer = [NoInstall EXCEPT !.pc = "idle"]

NextInstall ==
  \/ \E manager \in Managers, silent \in BOOLEAN :
       installDependencies(manager, silent)
  \/ onTimeout
  \/ \E code \in ExitCodes : onClose(code)
  \/ onError

\* The timer fires unless clearTimeout was called first.
SpecInstall == InitInstall /\ [][NextInstall]_vars /\ WF_vars(onTimeout)

ComponentsIdle ==
  /\ extractor = NoExtraction
  /\ generator = NoGeneration
  /\ templates = NoTemplates
  /\ installer = NoInstall

(***************************************************************************)
(* Specifications.                                                         *)
(***************************************************************************)
\* Config holds either value of templates.cache; the script's object
\* literal holds 'templates.cache': false.
Configs ==
  {[kind |-> "Config", cache |-> b] : b \in BOOLEAN}
  \cup {[kind |-> "script", cache |-> FALSE]}

\* A first run: no cache root, or an empty one.
Init ==
  /\ cacheDirExists \in BOOLEAN
  /\ dirs = [k \in Keys |-> "absent"]
  /\ metas = [k \in Keys |-> AbsentFile]
  /\ now = 0
  /\ config \in Configs
  /\ pc = "idle"
  /\ cur = NoCall
  /\ pRef = NoReference
  /\ pOut = <<>>
  /\ ComponentsIdle

Next ==
  \/ \E r \in RefSet, o \in Options, f \in Faults : getTemplate(r, o, f)
  \/ \E r \in RefSet : getCachedTemplateCall(r)
  \/ initCacheDir
  \/ removeOld
  \/ downloadStart
  \/ downloadEnd
  \/ extractStart
  \/ extractEnd
  \/ writeMetaStart
  \/ writeMetaEnd
  \/ catchRemoveDir
  \/ catchRemoveMeta
  \/ Interrupt
  \/ Tick
  \/ \E fails \in BOOLEAN : clearAllCache(fails)

Spec == Init /\ [][Next]_vars

(***************************************************************************)
(* The read path on every on-disk state of the entries.                    *)
(***************************************************************************)
\* A direct call of isCacheValid(repoUrl).
isCacheValidCall(repoUrl) ==
  /\ pc \in Settled
  /\ cur' = [NoCall EXCEPT !.op = "isCacheValid", !.repoUrl = repoUrl,
                           !.result = IF isCacheValid(repoUrl)
                                      THEN <<"boolean", 1>> ELSE <<"boolean", 0>>]
  /\ pc' = "returned"
  /\ UNCHANGED <<disk, now, config, resolver, components>>

\* The metadata documents an earlier run, another tool or the user may have
\* left: with or without cachedAt.
DiskObjects ==
  {[EmptyObject EXCEPT !.cachedAt = c] :
     c \in {Missing} \cup {Num(t) : t \in 0..MaxTime}}
DiskFiles == {AbsentFile, CorruptFile} \cup {JsonFile(o) : o \in DiskObjects}

InitDisk ==
  /\ cacheDirExists = TRUE
  /\ dirs \in {d \in [Keys -> DirStates] : \A k \in Keys \ RefKeys : d[k] = "absent"}
  /\ metas \in {m \in [Keys -> DiskFiles] :
                  \A k \in Keys \ RefKeys : m[k] = AbsentFile}
  /\ now \in 0..MaxTime
  /\ config = [kind |-> "Config", cache |-> TRUE]
  /\ pc = "idle"
  /\ cur = NoCall
  /\ pRef = NoReference
  /\ pOut = <<>>
  /\ ComponentsIdle

NextDisk ==
  \/ \E r \in RefSet : isCacheValidCall(r)
  \/ \E r \in RefSet : getCachedTemplateCall(r)
  \/ \E k \in RefKeys, f \in RemoveFaults : removeCacheItem(k, f)
  \/ \E faults \in [RefKeys -> RemoveFaults] : cleanExpiredCache(faults)
  \/ \E fails \in BOOLEAN : clearAllCache(fails)
  \/ getCacheStats

SpecDisk == InitDisk /\ [][NextDisk]_vars

(***************************************************************************)
(* getTemplate on references that name the same repository in different    *)
(* strings, with no failing step.                                          *)
(***************************************************************************)
NextKeys ==
  \/ \E r \in AllRefs : getTemplate(r, NoOptions, "none")
  \/ initCacheDir
  \/ removeOld
  \/ downloadStart
  \/ downloadEnd
  \/ extractStart
  \/ extractEnd
  \/ writeMetaStart
  \/ writeMetaEnd
  \/ Tick

SpecKeys == Init /\ [][NextKeys]_vars

InitResolve ==
  /\ cacheDirExists = FALSE
  /\ dirs = [k \in Keys |-> "absent"]
  /\ metas = [k \in Keys |-> AbsentFile]
  /\ now = 0
  /\ config = [kind |-> "Config", cache |-> TRUE]
  /\ pc = "idle"
  /\ cur = NoCall
  /\ pRef \in References
  /\ pOut = <<>>
  /\ ComponentsIdle

NextResolve == Resolve \/ ResolveAgain \/ ResolveOutput \/ Decide

SpecResolve == InitResolve /\ [][NextResolve]_vars

(***************************************************************************)
(* Properties.                                                             *)
(***************************************************************************)
\* The entry of the running (or last) call.
CurDirExists == DirExists(CurKey)
CurMetaExists == MetaExists(CurKey)

\* The directory of r's entry is what a Fetcher run (and the extraction,
\* when r carries a subdirectory) leaves when it completes.
Complete(r) ==
  dirs[generateCacheKey(r)] =
    IF NeedsExtract(parseGitUrl(r)) THEN "extracted" ELSE "raw"

\* C1: after a getTemplate call that rejects, whichever step failed,
\* neither the entry directory nor the metadata file of the reference's
\* cache key is on disk.
C1_RejectedCallLeavesNoEntry ==
  (pc = "rejected" /\ cur.op = "getTemplate")
    => (~CurDirExists /\ ~CurMetaExists)

\* C2: whenever no call is running (also right after a run was terminated
\* part-way), an entry isCacheValid reports valid has a directory left by a
\* fetch, and extraction if any, that ran to completion.
C2_ValidEntryIsComplete ==
  pc \in Settled => \A r \in RefSet : isCacheValid(r) => Complete(r)

\* C3: with caching enabled, a getTemplate call that follows a call for
\* the same reference that fetched, less than cacheTime after that fetch,
\* is a cache hit: it invokes no Fetcher and returns the same path.
C3_SecondCallHitsCache ==
  [][ ( /\ pc = "returned" /\ cur.op = "getTemplate" /\ cur.fetches = 1
        /\ CacheEnabled
        /\ now - cur.fetchedAt < CacheTime
        /\ now' = now
        /\ cur'.op = "getTemplate" /\ cur'.repoUrl = cur.repoUrl
        /\ cur' # cur )
      => ( /\ pc' = "returned"
           /\ cur'.fetches = 0
           /\ cur'.result = cur.result ) ]_vars

\* What C4 states isCacheValid to be: directory and metadata file exist, the
\* metadata parses, and now - cachedAt <= cacheTime.
StatedValid(r) ==
  LET k == generateCacheKey(r)
  IN /\ DirExists(k)
     /\ MetaExists(k)
     /\ metas[k].kind = "json"
     /\ Get(metas[k].obj, "cachedAt")[1] = "number"
     /\ now - Get(metas[k].obj, "cachedAt")[2] <= CacheTime

\* C4: on every on-disk state of an entry, isCacheValid(reference) is true
\* iff the directory exists, the metadata file exists, the metadata parses
\* and now - cachedAt <= cacheTime.
C4_ValidIffStated ==
  (pc = "returned" /\ cur.op = "isCacheValid")
    => ((cur.result = <<"boolean", 1>>) <=> StatedValid(cur.repoUrl))

\* C5: when templates.cache is false, every getTemplate call that returns
\* has invoked the Fetcher exactly once.
C5_DisabledCacheAlwaysFetches ==
  (pc = "returned" /\ cur.op = "getTemplate" /\ ~config.cache)
    => cur.fetches = 1

\* C6: a cache lookup (getCachedTemplate called directly, or the hit of a
\* getTemplate call) returns the entry directory iff isCacheValid and null
\* otherwise, invokes no Fetcher and leaves the cache root, every directory
\* and every metadata file (cachedAt included) as they were.
C6_LookupIsReadOnly ==
  [][ /\ ( (pc \in Settled /\ now' = now /\ cur'.op = "getCachedTemplate")
           => ( /\ UNCHANGED disk
                /\ cur'.fetches = 0
                /\ cur'.result =
                     IF isCacheValid(cur'.repoUrl)
                     THEN getCachePath(generateCacheKey(cur'.repoUrl))
                     ELSE Null ) )
      /\ ( ( /\ pc \in Settled /\ now' = now
             /\ cur'.op = "getTemplate" /\ pc' = "returned" )
           => (UNCHANGED disk /\ cur'.fetches = 0 /\ isCacheValid(cur'.repoUrl)) )
    ]_vars

\* C6 witness: a direct lookup hit on an entry fetched earlier.
C6_Witness ==
  /\ cur.op = "getCachedTemplate"
  /\ cur.result = getCachePath(CurKey)
  /\ metas[CurKey].kind = "json"
  /\ Get(metas[CurKey].obj, "cachedAt") # Num(now)

C8_CorruptMetadataIsRefetched ==
  /\ \A r \in RefSet :
       metas[generateCacheKey(r)].kind = "corrupt" => ~isCacheValid(r)
  /\ (cur.op = "getTemplate" /\ cur.startCorrupt /\ CacheEnabled)
       => ( /\ cur.error # "SyntaxError"
            /\ pc = "returned" => cur.fetches = 1
            /\ (pc = "returned" /\ now = cur.fetchedAt)
                 => ( /\ metas[CurKey].kind = "json"
                      /\ isCacheValid(cur.repoUrl) ) )

\* C9: after a getTemplate call that fetched and returned, the metadata
\* holds the time of the fetch as cachedAt and the reference's own cache
\* key as cacheKey, whatever the options, and the entry is valid for the
\* next cacheTime.
C9_MetadataRecordsFetch ==
  (pc = "returned" /\ cur.op = "getTemplate" /\ cur.fetches = 1)
    => ( /\ metas[CurKey].kind = "json"
         /\ Get(metas[CurKey].obj, "cachedAt") = Num(cur.fetchedAt)
         /\ Get(metas[CurKey].obj, "cacheKey") = Str(CurKey)
         /\ (now - cur.fetchedAt <= CacheTime => isCacheValid(cur.repoUrl)) )

\* The archive locator of (owner, repo, branch), and with a subdirectory
\* given as its list of segments.
ArchiveOf(owner, repo, branch) ==
  <<"direct", Colon, "https", Colon, Slash, Slash, "github.com", Slash>>
    \o owner \o <<Slash>> \o repo \o <<Slash, "archive", Slash>>
    \o branch \o <<".zip">>
ArchiveWithSubdir(owner, repo, branch, segs) ==
  ArchiveOf(owner, repo, branch) \o <<Hash>> \o Join(segs, Slash)

\* C10: a repository URL /owner/repo/tree/branch/subdir... resolves to the
\* archive of (owner, repo, branch) with that subdirectory, /owner/repo/
\* tree/branch to the archive of (owner, repo, branch) alone, and
\* /owner/repo to the archive of (owner, repo, main) alone.
C10_UrlResolution ==
  pc = "returned" =>
    /\ pRef.form = "treeSubdir"
         => pOut = ArchiveWithSubdir(pRef.owner, pRef.repo, pRef.branch, pRef.segs)
    /\ pRef.form = "tree" => pOut = ArchiveOf(pRef.owner, pRef.repo, pRef.branch)
    /\ pRef.form = "repo" => pOut = ArchiveOf(pRef.owner, pRef.repo, MainBranch)

\* C10 witness: the URL of the create-vite vanilla template, resolved.
C10_Witness ==
  /\ pc = "returned"
  /\ pRef.text = <<"https", Colon, Slash, Slash, "github.com", Slash, "vitejs",
                   Slash, "vite", Slash, "tree", Slash, "main", Slash,
                   "packages", Slash, "create-vite", Slash, "template-vanilla">>
  /\ pOut = <<"direct", Colon, "https", Colon, Slash, Slash, "github.com",
              Slash, "vitejs", Slash, "vite", Slash, "archive", Slash, "main",
              ".zip", Hash, "packages", Slash, "create-vite", Slash,
              "template-vanilla">>

\* C11: the shorthand owner/repo resolves to the archive of (owner, repo,
\* main) and owner/repo#branch to the archive of (owner, repo, branch), for
\* every branch name, both with no subdirectory.
C11_ShorthandResolution ==
  pc = "returned" =>
    /\ pRef.form = "short" => pOut = ArchiveOf(pRef.owner, pRef.repo, MainBranch)
    /\ pRef.form = "shortBranch"
         => pOut = ArchiveOf(pRef.owner, pRef.repo, pRef.branch)

\* C12: the shorthand owner/repo#branch:subdir resolves to the archive of
\* (owner, repo, branch) with exactly that subdirectory, of one segment or
\* of several.
C12_ShorthandSubdirResolution ==
  (pc = "returned" /\ pRef.form = "shortSubdir")
    => pOut = ArchiveWithSubdir(pRef.owner, pRef.repo, pRef.branch, pRef.segs)

\* C13: a reference with the 'direct:' prefix is returned unchanged, and
\* parseGitUrl applied to its own output returns that output.
C13_ResolveIsIdempotent ==
  [][ /\ (pc' = "returned" /\ pRef'.form = "direct") => pOut' = pRef'.text
      /\ pc' = "resolvedOutput" => pOut' = pOut ]_vars

\* s is a string: a sequence of tokens.
IsString(s) == DOMAIN s = 1..Len(s) /\ \A i \in 1..Len(s) : s[i] \in STRING

\* C14: parseGitUrl returns a string for every reference, returns a
\* reference of none of the recognised forms unchanged, and returns the same
\* output when called again on the same reference.
C14_ResolveNeverFails ==
  [][ /\ pc' \in {"returned", "resolvedAgain"} /\ pRef'.form # "none"
           => IsString(pOut')
      /\ (pc' = "returned" /\ pRef'.form = "other") => pOut' = pRef'.text
      /\ pc' = "resolvedAgain" => pOut' = pOut ]_vars

\* The reference strings that denote (owner, repo, branch, subdirectory):
\* the shorthand and the URL, and for branch main also the forms that omit
\* the branch.  A branch that holds a "/" has no URL form, nor has a
\* subdirectory that holds a "#" (in a URL it would start the fragment).
ReferencesTo(owner, repo, branch, segs) ==
  IF segs # NoSegs
  THEN {ShortSubdirRef(owner, repo, branch, segs)}
       \cup {TreeSubdirUrl(owner, repo, branch, segs) :
               b \in {x \in {branch} \cap Branches : segs \notin HashSubdirs}}
  ELSE {ShortBranchRef(owner, repo, branch)}
       \cup {TreeUrl(owner, repo, branch) : b \in {branch} \cap Branches}
       \cup (IF branch = MainBranch
             THEN {ShortRef(owner, repo), RepoUrl(owner, repo)} ELSE {})

\* C15: every reference string that denotes the same repository, branch
\* (main when omitted) and subdirectory as the resolved reference resolves to
\* the same locator.
C15_SameDenotationSameLocator ==
  (pc = "returned" /\ pRef.form \notin {"none", "direct", "other"})
    => \A t \in ReferencesTo(pRef.owner, pRef.repo, pRef.branch, pRef.segs) :
         parseGitUrl(t) = pOut

\* C16: distinct reference strings have distinct cache keys, also when they
\* resolve to the same locator, and no step of a getTemplate call touches
\* the entry of another reference string or changes what isCacheValid
\* answers for it.
C16_KeyOfRawReference ==
  [][ /\ \A r1, r2 \in AllRefs :
           r1 # r2 => generateCacheKey(r1) # generateCacheKey(r2)
      /\ (cur'.op = "getTemplate" /\ now' = now)
           => \A r \in AllRefs \ {cur'.repoUrl} :
                /\ dirs'[generateCacheKey(r)] = dirs[generateCacheKey(r)]
                /\ metas'[generateCacheKey(r)] = metas[generateCacheKey(r)]
                /\ isCacheValid(r)' = isCacheValid(r) ]_vars

\* C16 witness: the URL of user/repo was fetched while the entry of the
\* shorthand user/repo, which resolves to the same locator, was valid.
C16_Witness ==
  /\ pc = "returned"
  /\ cur.op = "getTemplate"
  /\ cur.repoUrl = RefUrl
  /\ cur.fetches = 1
  /\ parseGitUrl(RefUrl) = parseGitUrl(RefPlain)
  /\ isCacheValid(RefPlain)

\* C17: cleanExpiredCache leaves no directory and no metadata file of an
\* entry whose age exceeded cacheTime, leaves every other entry unchanged,
\* and returns the number of entries it actually removed.
C17_CleanRemovesExactlyExpired ==
  [][ (cur'.op = "cleanExpiredCache" /\ now' = now) =>
        /\ \A k \in Keys :
             IF /\ metas[k].kind = "json"
                /\ Get(metas[k].obj, "cachedAt")[1] = "number"
                /\ now - Get(metas[k].obj, "cachedAt")[2] > CacheTime
             THEN dirs'[k] = "absent" /\ metas'[k] = AbsentFile
             ELSE dirs'[k] = dirs[k] /\ metas'[k] = metas[k]
        /\ cur'.result =
             Num(Cardinality({k \in Keys :
                   /\ DirExists(k) \/ MetaExists(k)
                   /\ dirs'[k] = "absent"
                   /\ metas'[k] = AbsentFile})) ]_vars

C19_ClearThenRefetch ==
  /\ (cur.op = "clearAllCache" /\ cur.result = JsTrue)
       => (~cacheDirExists /\ \A r \in AllRefs : ~isCacheValid(r))
  /\ (cur.op = "getTemplate" /\ cur.afterClear)
       => /\ pc = "returned"
               => /\ cur.fetches = 1
                  /\ cacheDirExists
                  /\ Complete(cur.repoUrl)
                  /\ metas[CurKey].kind = "json"
          /\ pc = "rejected" => cur.failed # "none"

\* C19 witness: the getTemplate call after a clearAllCache returned.
C19_Witness ==
  /\ pc = "returned"
  /\ cur.op = "getTemplate"
  /\ cur.afterClear
  /\ cur.fetches = 1
  /\ cacheDirExists

\* C20: getCacheStats leaves the cache root, every directory and every
\* metadata file as they were, and isCacheValid answers the same for every
\* reference before and after it.
C20_StatsIsReadOnly ==
  [][ (cur'.op = "getCacheStats" /\ now' = now) =>
        /\ UNCHANGED disk
        /\ \A r \in AllRefs : isCacheValid(r)' = isCacheValid(r) ]_vars

\* C20 witness: getCacheStats returned on an absent cache root, and on a
\* cache holding an unparseable metadata file.
C20_Witness ==
  /\ pc = "returned"
  /\ cur.op = "getCacheStats"
  /\ \/ ~cacheDirExists
     \/ \E k \in Keys : metas[k].kind = "corrupt" /\ cur.result[2] >= 1

\* C28: every step of a getTemplate(r) call, of one that returns as of one
\* that rejects, leaves the directory and the metadata file of every other
\* cache key as they were, and isCacheValid of every other reference keeps
\* its value.
C28_GetTemplateTouchesOwnEntryOnly ==
  [][ (cur'.op = "getTemplate" /\ now' = now)
        => \A r \in AllRefs \ {cur'.repoUrl} :
             /\ dirs'[generateCacheKey(r)] = dirs[generateCacheKey(r)]
             /\ metas'[generateCacheKey(r)] = metas[generateCacheKey(r)]
             /\ isCacheValid(r)' = isCacheValid(r) ]_vars

\* C28 witness: a getTemplate call rejected after its catch block ran while
\* another reference has a valid entry.
C28_Witness ==
  /\ pc = "rejected"
  /\ cur.op = "getTemplate"
  /\ cur.failed \in {"fetch", "extract", "writeMeta"}
  /\ \E r \in RefSet \ {cur.repoUrl} : isCacheValid(r)

\* The entries of sourcePath in tree t, as entries of downloadPath.
ExtractedFrom(t, sourcePath) ==
  {Rebase(n, sourcePath, <<>>) : n \in Below(t, sourcePath)}

\* The root of the archive content: the wrapper directory, or downloadPath.
ArchiveRoot == IF extractor.wrapped THEN <<Wrapper>> ELSE <<>>

\* The first run of extractSubdirectory has ended.
FirstRunEnded == extractor.runs = 1 /\ extractor.pc \in {"done", "failed"}

\* C21: with a single wrapper directory holding the subdirectory, the run
\* succeeds and downloadPath then holds exactly the entries the
\* subdirectory held, whatever they are named: no wrapper, no staging
\* directory, nothing missing and nothing extra.
C21_WrappedExtraction ==
  ( /\ FirstRunEnded
    /\ extractor.wrapped
    /\ IsDirectory(extractor.archive, <<Wrapper>> \o extractor.subdirectory) )
    => /\ extractor.pc = "done"
       /\ extractor.tree =
            ExtractedFrom(extractor.archive, <<Wrapper>> \o extractor.subdirectory)

\* The first segment of the subdirectory that does not exist under the
\* archive root.
FirstMissing ==
  LET missing == {i \in 1..Len(extractor.subdirectory) :
                    ~Exists(extractor.archive,
                            ArchiveRoot \o SubSeq(extractor.subdirectory, 1, i))}
  IN CHOOSE j \in missing : \A l \in missing : j <= l

\* C22: when the subdirectory does not exist under the archive root, the
\* run fails with an error that names the first missing segment, and the
\* entries found beside it are reported.
C22_MissingSegmentIsNamed ==
  ( /\ FirstRunEnded
    /\ ~Exists(extractor.archive, ArchiveRoot \o extractor.subdirectory) )
    => /\ extractor.pc = "failed"
       /\ extractor.error.code = "SubdirectoryNotFound"
       /\ extractor.error.segment = extractor.subdirectory[FirstMissing]
       /\ extractor.error.siblings =
            readDir(extractor.archive,
                    ArchiveRoot \o SubSeq(extractor.subdirectory, 1, FirstMissing - 1))

\* C23: a second run on the directory a first run has extracted succeeds and
\* leaves the directory as it was.
C23_ExtractionIsIdempotent ==
  ( /\ extractor.runs = 2
    /\ extractor.before =
         ExtractedFrom(extractor.archive, ArchiveRoot \o extractor.subdirectory) )
    => /\ extractor.pc = "done"
       /\ extractor.tree = extractor.before

\* C25: with the archive unpacked directly into downloadPath and the
\* subdirectory present, the run succeeds and downloadPath then holds
\* exactly the entries the subdirectory held, whatever the top-level entries
\* were.
C25_UnwrappedExtraction ==
  ( /\ FirstRunEnded
    /\ ~extractor.wrapped
    /\ IsDirectory(extractor.archive, extractor.subdirectory) )
    => /\ extractor.pc = "done"
       /\ extractor.tree =
            ExtractedFrom(extractor.archive, extractor.subdirectory)

\* The value of the variable `subdirectory` in the rule of parseGitUrl that
\* built the locator; empty when the rule has none.
ResolvedSubdirectory(repoUrl) ==
  LET url == URLPathname(repoUrl)
      pathParts == FilterParts(Split(url.pathname, Slash))
  IN IF Includes(repoUrl, "github.com") /\ url.ok /\ Len(pathParts) >= 2
     THEN IF Len(pathParts) > 2 /\ pathParts[3] = <<"tree">>
          THEN SubdirectoryOf(pathParts) ELSE <<>>
     ELSE IF MatchOwnerRepo(repoUrl) \/ MatchBranch(repoUrl).ok THEN <<>>
     ELSE IF MatchSubdir(repoUrl).ok THEN MatchSubdir(repoUrl).subdirectory
     ELSE <<>>

\* C26: the decisions depend on the locator only: the archive strategy is
\* chosen exactly for a locator that starts with direct:, and for an archive
\* locator the resolver built, extractSubdirectory is called exactly when
\* the resolver produced a subdirectory, and on that very subdirectory.
C26_DecisionsFollowLocator ==
  pc = "decided" =>
    /\ cur.result = Decisions(pOut)
    /\ cur.result.strategy = "archive" <=> StartsWith(pOut, DirectPrefix)
    /\ cur.result.strategy \in {"archive", "clone"}
    /\ (pRef.form \notin {"direct", "other"} /\ StartsWith(pOut, DirectPrefix))
         => /\ cur.result.extract <=> ResolvedSubdirectory(pRef.text) # <<>>
            /\ cur.result.extract
                 => cur.result.subdirectory = ResolvedSubdirectory(pRef.text)

\* The error each step of generate throws.
StepErrors ==
  [validate |-> {"INVALID_PROJECT_NAME", "DIRECTORY_EXISTS", "VALIDATION_ERROR"},
   createDir |-> {"PERMISSION_DENIED"},
   template |-> {"TEMPLATE_DOWNLOAD_ERROR", "NO_TEMPLATE_SPECIFIED"},
   copy |-> {"TEMPLATE_NOT_FOUND", "TEMPLATE_COPY_ERROR"},
   process |-> {"TEMPLATE_PROCESS_ERROR"},
   packageJson |-> {"PACKAGE_JSON_UPDATE_ERROR"},
   install |-> {"DEPENDENCY_INSTALL_FAILED"}]

\* C24: when generate has rejected, whichever step failed, targetDir does
\* not exist and the error is that of the failing step.
C24_FailedGenerateLeavesNoTarget ==
  generator.pc = "rejected"
    => /\ generator.target = "absent"
       /\ generator.failed \in DOMAIN StepErrors
       /\ generator.error \in StepErrors[generator.failed]

\* C27: a call that finds targetDir existing, with force not set, rejects
\* with DIRECTORY_EXISTS and leaves the directory as it was; a directory that
\* was there before the call is gone or changed afterwards only when force
\* was set.
C27_ExistingTargetIsKept ==
  generator.pc \in {"returned", "rejected"}
    => /\ ( /\ generator.before # "absent"
            /\ ~generator.force
            /\ generator.call.validName )
           => /\ generator.pc = "rejected"
              /\ generator.error = "DIRECTORY_EXISTS"
              /\ generator.target = generator.before
       /\ (generator.before # "absent" /\ generator.target # generator.before)
           => generator.force

\* C29: whatever template operations a loaded Config has gone through, no
\* template name is in more than one of the categories official, community
\* and custom.
C29_CategoriesAreDisjoint ==
  templates.pc = "loaded"
    => /\ templates.official \cap templates.community = {}
       /\ templates.official \cap templates.custom = {}
       /\ templates.community \cap templates.custom = {}

\* The promise of installDependencies has the value its first callback
\* gives it.
SettledByFirst ==
  /\ installer.settlements <= 1
  /\ installer.pc = "settled" <=> installer.first # "none"
  /\ installer.pc = "settled" <=> installer.settlements = 1
  /\ installer.pc = "settled" <=> installer.result \in {"true", "false"}
  /\ installer.result = "true"
       <=> /\ installer.first = "close"
           /\ installer.closed
           /\ installer.code = 0
           /\ installer.timer # "fired"
  /\ installer.first = "timeout"
       => installer.result = "false" /\ installer.child \in {"killed", "closed"}
  /\ installer.errored => installer.result = "false"
  /\ (installer.closed /\ installer.code # 0) => installer.result = "false"
  /\ installer.timer = "fired" => installer.result = "false"

\* C30: whatever the order of the close event, the error event and the
\* timer, the promise settles, once, with true or false and never a
\* rejection: true exactly when the child closed with code 0 before the
\* timer fired; false when the timer fired first (the child is killed), on an
\* error event and on a non-zero exit code; no later event changes the
\* result.
C30_InstallSettlesOnce ==
  /\ []SettledByFirst
  /\ [][installer.pc = "settled" => installer'.result = installer.result]_vars
  /\ (installer.pc = "pending") ~> (installer.pc = "settled")

\* The timer fired first and the child then closed with code 0.
C30_Witness ==
  /\ installer.first = "timeout"
  /\ installer.closed
  /\ installer.code = 0
  /\ installer.result = "false"

====
